---- MODULE Spec2Model ----
(***************************************************************************)
(* Model of demo-project/app.py: a Flask facade over a remote assistant    *)
(* service.  The module-level provisioning step (get_or_create_assistant)  *)
(* runs first; afterwards every request worker handles one of GET /,       *)
(* POST /chat or POST /upload.  A handler is split at its remote calls,    *)
(* its sleep and its yield, which are the points where other workers and   *)
(* the remote service can act.  Every remote call either returns or        *)
(* raises.  The remote service is the environment: it owns assistants,     *)
(* threads with their messages, runs and files.                            *)
(***************************************************************************)
EXTENDS Integers, Sequences, FiniteSets, TLC

(* ---------------------------------------------------------------- bounds *)
\* number of remote calls a worker's history records
MaxLog == 7
\* the largest number of polls or sleeps a worker counts
MaxCount == 3

(* ------------------------------------------------------------ vocabulary *)
\* Python's None
None == "<None>"
\* messages of the exceptions a remote call can raise
RemoteErrors == {"connection error", "bad request"}
\* values of data.get("message", "")
Messages == {"", "hello"}
\* the id the environment variable ASSISTANT_ID can name
ConfiguredId == "asst_cfg"
\* values of os.getenv("ASSISTANT_ID")
EnvAssistantIds == {None, "", ConfiguredId}
\* a thread the remote service already holds, and an id it does not know
OldThread == "thread_0"
UnknownThread == "thread_x"
\* run statuses of the remote service
Pending == {"queued", "in_progress"}
OtherStatuses == {"cancelled", "expired", "requires_action"}
\* the request workers; each serves at most one request
Reqs == {1, 2}

\* Python truthiness of an optional string
Truthy(x) == x # None /\ x # ""

(* ------------------------------------------------------- remote service *)
\* content blocks of a message
TextBlock(v) == [type |-> "text", value |-> v]
\* the text the assistant answers a run with, and the contents of its message
AnswerOf(rid) == "answer of " \o rid
AssistantContents(rid) == {<<TextBlock(AnswerOf(rid))>>}

VARIABLES
    env_ASSISTANT_ID, \* os.getenv("ASSISTANT_ID")
    ASSISTANT_ID,     \* the module-level global
    boot,             \* the module-level provisioning step
    assistants,       \* remote: assistant id -> attached file ids
    threads,          \* remote: thread id -> messages, oldest first
    runs,             \* remote: run id -> [thread_id, assistant_id, status]
    files,            \* remote: uploaded file ids
    req               \* request workers

vars == <<env_ASSISTANT_ID, ASSISTANT_ID, boot, assistants, threads, runs, files, req>>
remote == <<assistants, threads, runs, files>>

\* ids the remote service issues
AssistantIdOf(n) == "asst_" \o ToString(n)
ThreadIdOf(n) == "thread_" \o ToString(n)
RunIdOf(n) == "run_" \o ToString(n)
FileIdOf(n) == "file_" \o ToString(n)

\* an entry of a call history
Call(op, thread, arg, ok, res) ==
    [op |-> op, thread |-> thread, arg |-> arg, ok |-> ok, res |-> res]
\* history h extended by entry c, as far as the history records
Log(h, c) == IF Len(h) < MaxLog THEN Append(h, c) ELSE h
\* counter n increased, as far as it counts
Count(n) == IF n < MaxCount THEN n + 1 ELSE n

\* a JSON object is a set of <<key, value>> pairs
ErrorBody(msg) == {<<"error", msg>>}
NoJson == {}
\* f"data: {json.dumps(obj)}\n\n"
SseFrame(obj) == [prefix |-> "data: ", json |-> obj, suffix |-> "\n\n"]
\* value of key k of JSON object obj (None when absent)
Field(obj, k) == IF \E p \in obj : p[1] = k THEN (CHOOSE p \in obj : p[1] = k)[2] ELSE None
Keys(obj) == {p[1] : p \in obj}

\* an HTTP response
NoResponse == [status |-> 0, mimetype |-> "", json |-> NoJson, text |-> ""]
JsonResponse(st, obj) == [status |-> st, mimetype |-> "application/json", json |-> obj, text |-> ""]

\* a worker that serves no request
NoRequest ==
    [kind |-> "none", pc |-> "idle", message |-> "", given_thread_id |-> None,
     has_file |-> FALSE, thread_id |-> None, run_id |-> None, run_status |-> None,
     file_id |-> None, calls |-> <<>>, pendingPolls |-> 0, otherPolls |-> FALSE, sleeps |-> 0,
     frames |-> <<>>, raised |-> None, resp |-> NoResponse]
\* the requests a client can send, before a worker has picked them up
HelloRequest == [NoRequest EXCEPT !.kind = "hello"]
ChatRequest(m, t) == [NoRequest EXCEPT !.kind = "chat", !.message = m, !.given_thread_id = t]
UploadRequest(f) == [NoRequest EXCEPT !.kind = "upload", !.has_file = f]
Requests ==
    {HelloRequest}
    \cup {ChatRequest(m, t) : m \in Messages, t \in {None, "", UnknownThread, OldThread}}
    \cup {UploadRequest(f) : f \in BOOLEAN}
\* the pairs of requests of the runs with two clients at once: two chats on
\* the thread both know, a chat on a fresh thread beside an upload, two
\* uploads, a health check beside an upload
ConcurrentRequests ==
    {<<ChatRequest("hello", OldThread), ChatRequest("hello", OldThread)>>,
     <<ChatRequest("hello", None), UploadRequest(TRUE)>>,
     <<UploadRequest(TRUE), UploadRequest(TRUE)>>,
     <<HelloRequest, UploadRequest(TRUE)>>}

\* what every run starts from
InitCommon ==
    /\ ASSISTANT_ID = None
    /\ boot = [pc |-> "start", assistant_id |-> None, calls |-> <<>>, raised |-> None]
    /\ threads = (OldThread :> <<>>)
    /\ runs = <<>>
    /\ files = {}

\* one client sends one request
Init ==
    /\ InitCommon
    /\ env_ASSISTANT_ID \in EnvAssistantIds
    /\ assistants \in {<<>>, (ConfiguredId :> <<>>)}
    /\ \E q \in Requests : req = [r \in Reqs |-> IF r = 1 THEN q ELSE NoRequest]

\* two clients send a request each, at any time
InitConcurrent ==
    /\ InitCommon
    /\ env_ASSISTANT_ID = ConfiguredId
    /\ assistants = (ConfiguredId :> <<>>)
    /\ req \in ConcurrentRequests

(* --------------------------------------------- get_or_create_assistant *)
\* line 21: assistant_id = os.getenv("ASSISTANT_ID")
BootGetenv ==
    /\ boot.pc = "start"
    /\ boot' = [boot EXCEPT !.assistant_id = env_ASSISTANT_ID,
                            !.pc = IF Truthy(env_ASSISTANT_ID) THEN "retrieve" ELSE "create"]
    /\ UNCHANGED <<env_ASSISTANT_ID, ASSISTANT_ID, remote, req>>

\* a provisioning step that creates an assistant although the configured one exists
BootRetrieveOk_Recreates(b) ==
    [b EXCEPT !.pc = "create",
              !.calls = Log(@, Call("assistants.retrieve", None, b.assistant_id, TRUE, b.assistant_id))]

\* lines 26-27: the retrieve call returns: return assistant_id
BootRetrieveOk(b) ==
    [b EXCEPT !.pc = "returned",
              !.calls = Log(@, Call("assistants.retrieve", None, b.assistant_id, TRUE, b.assistant_id))]

\* a provisioning step that lets the retrieval failure escape
BootRetrieveRaise_Propagates(b, e) ==
    [b EXCEPT !.pc = "crashed", !.raised = e,
              !.calls = Log(@, Call("assistants.retrieve", None, b.assistant_id, FALSE, e))]

\* lines 28-30: the retrieve call raises: assistant_id = None
BootRetrieveRaise(b, e) ==
    [b EXCEPT !.pc = "create", !.assistant_id = None,
              !.calls = Log(@, Call("assistants.retrieve", None, b.assistant_id, FALSE, e))]

BootRetrieve ==
    /\ boot.pc = "retrieve"
    /\ \/ /\ boot.assistant_id \in DOMAIN assistants
          /\ boot' = BootRetrieveOk(boot)
          /\ ASSISTANT_ID' = boot'.assistant_id
       \/ /\ \E e \in RemoteErrors : boot' = BootRetrieveRaise(boot, e)
          /\ UNCHANGED ASSISTANT_ID
    /\ UNCHANGED <<env_ASSISTANT_ID, remote, req>>

\* lines 33-51: client.beta.assistants.create(...)
BootCreate ==
    /\ boot.pc = "create"
    /\ \/ LET id == AssistantIdOf(Cardinality(DOMAIN assistants) + 1) IN
          /\ assistants' = assistants @@ (id :> <<>>)
          /\ boot' = [boot EXCEPT !.pc = "returned", !.assistant_id = id,
                                  !.calls = Log(@, Call("assistants.create", None, None, TRUE, id))]
          /\ ASSISTANT_ID' = id
       \/ \E e \in RemoteErrors :
          /\ boot' = [boot EXCEPT !.pc = "crashed", !.raised = e,
                                  !.calls = Log(@, Call("assistants.create", None, None, FALSE, e))]
          /\ UNCHANGED <<ASSISTANT_ID, assistants>>
    /\ UNCHANGED <<env_ASSISTANT_ID, threads, runs, files, req>>

(* -------------------------------------------------------------- GET / *)
\* lines 58-60
hello(r) ==
    /\ boot.pc = "returned"
    /\ req[r].kind = "hello" /\ req[r].pc = "idle"
    /\ req' = [req EXCEPT ![r] = [@ EXCEPT !.pc = "returned",
                  !.resp = [status |-> 200, mimetype |-> "text/html", json |-> NoJson,
                            text |-> "Hello, World!"]]]
    /\ UNCHANGED <<env_ASSISTANT_ID, ASSISTANT_ID, boot, remote>>

(* ---------------------------------------------------------- POST /chat *)
\* a check that never creates a thread, and one that always does
NeedsThread_Never(thread_id) == FALSE
NeedsThread_Always(thread_id) == TRUE

\* line 70: if not thread_id
NeedsThread(thread_id) == ~Truthy(thread_id)

\* a handler that hides the exception's message
ChatExcept_Generic(q, c, e) ==
    [q EXCEPT !.pc = "returned", !.calls = Log(@, c),
              !.resp = JsonResponse(500, ErrorBody("Internal Server Error"))]

\* lines 121-122: except Exception as e: return {"error": str(e)}, 500
ChatExcept(q, c, e) ==
    [q EXCEPT !.pc = "returned", !.calls = Log(@, c), !.resp = JsonResponse(500, ErrorBody(e))]

\* lines 64-66: the request body is read
ChatReceive(r) ==
    /\ boot.pc = "returned"
    /\ req[r].kind = "chat" /\ req[r].pc = "idle"
    /\ LET t == req[r].given_thread_id IN
       req' = [req EXCEPT ![r] = [@ EXCEPT !.thread_id = t,
                   !.pc = IF NeedsThread(t) THEN "threads_create" ELSE "messages_create"]]
    /\ UNCHANGED <<env_ASSISTANT_ID, ASSISTANT_ID, boot, remote>>

\* lines 71-72: thread = client.beta.threads.create(); thread_id = thread.id
ThreadsCreate(r) ==
    /\ req[r].pc = "threads_create"
    /\ \/ LET id == ThreadIdOf(Cardinality(DOMAIN threads)) IN
          /\ threads' = threads @@ (id :> <<>>)
          /\ req' = [req EXCEPT ![r] = [@ EXCEPT !.thread_id = id, !.pc = "messages_create",
                        !.calls = Log(@, Call("threads.create", None, None, TRUE, id))]]
       \/ \E e \in RemoteErrors :
          /\ req' = [req EXCEPT ![r] =
                        ChatExcept(@, Call("threads.create", None, None, FALSE, e), e)]
          /\ UNCHANGED threads
    /\ UNCHANGED <<env_ASSISTANT_ID, ASSISTANT_ID, boot, assistants, runs, files>>

\* lines 75-79: client.beta.threads.messages.create(thread_id, role="user", content=message)
UserMessage(m) == [role |-> "user", content |-> <<TextBlock(m)>>, run_id |-> None]

MessagesCreate(r) ==
    /\ req[r].pc = "messages_create"
    /\ LET q == req[r] IN
       \/ /\ q.thread_id \in DOMAIN threads
          /\ threads' = [threads EXCEPT ![q.thread_id] = Append(@, UserMessage(q.message))]
          /\ req' = [req EXCEPT ![r] = [@ EXCEPT !.pc = "runs_create",
                        !.calls = Log(@, Call("messages.create", q.thread_id, q.message, TRUE, None))]]
       \/ \E e \in RemoteErrors :
          /\ req' = [req EXCEPT ![r] =
                        ChatExcept(@, Call("messages.create", q.thread_id, q.message, FALSE, e), e)]
          /\ UNCHANGED threads
    /\ UNCHANGED <<env_ASSISTANT_ID, ASSISTANT_ID, boot, assistants, runs, files>>

\* a chat() that starts the run with the configured id, not the provisioned one
RunAssistant_Configured == env_ASSISTANT_ID

\* line 84: assistant_id=ASSISTANT_ID
RunAssistant == ASSISTANT_ID

\* a chat() that starts the run on the thread id of the request body
RunThread_Given(q) == q.given_thread_id

\* line 83: thread_id=thread_id
RunThread(q) == q.thread_id

\* lines 82-85 and 116-119: run = client.beta.threads.runs.create(...); the
\* streaming response is returned, generate() has not started
RunsCreate(r) ==
    /\ req[r].pc = "runs_create"
    /\ LET q == req[r] IN
       \/ LET id == RunIdOf(Cardinality(DOMAIN runs) + 1) IN
          /\ runs' = runs @@ (id :> [thread_id |-> RunThread(q), assistant_id |-> RunAssistant,
                                     status |-> "queued"])
          /\ req' = [req EXCEPT ![r] = [@ EXCEPT !.run_id = id, !.pc = "poll",
                        !.calls = Log(@, Call("runs.create", RunThread(q), RunAssistant, TRUE, id)),
                        !.resp = [status |-> 200, mimetype |-> "text/event-stream",
                                  json |-> NoJson, text |-> ""]]]
       \/ \E e \in RemoteErrors :
          /\ req' = [req EXCEPT ![r] =
                        ChatExcept(@, Call("runs.create", RunThread(q), RunAssistant, FALSE, e), e)]
          /\ UNCHANGED runs
    /\ UNCHANGED <<env_ASSISTANT_ID, ASSISTANT_ID, boot, assistants, threads, files>>

\* lines 107-111: the frame of a failed run
error_data(thread_id) == {<<"error", "Assistant run failed">>, <<"thread_id", thread_id>>}
\* lines 100-104: the frame of a completed run
response_data(latest_message, thread_id) ==
    {<<"content", latest_message.content[1].value>>, <<"thread_id", thread_id>>}

\* a generate() without the break after the error frame
AfterPoll_NoBreak(q, status) ==
    IF status = "completed" THEN [q EXCEPT !.run_status = status, !.pc = "list"]
    ELSE IF status = "failed"
         THEN [q EXCEPT !.run_status = status, !.pc = "poll", !.sleeps = Count(@),
                        !.frames = Append(@, SseFrame(error_data(q.thread_id)))]
         ELSE [q EXCEPT !.run_status = status, !.pc = "poll", !.sleeps = Count(@),
                        !.pendingPolls = IF status \in Pending THEN Count(@) ELSE @,
                        !.otherPolls = @ \/ status \notin Pending]

\* a generate() that ends the stream with an error frame on any status that is
\* neither pending nor completed
AfterPoll_OtherIsFailure(q, status) ==
    IF status = "completed" THEN [q EXCEPT !.run_status = status, !.pc = "list"]
    ELSE IF status \notin Pending
         THEN [q EXCEPT !.run_status = status, !.pc = "yield",
                        !.frames = Append(@, SseFrame(error_data(q.thread_id)))]
         ELSE [q EXCEPT !.run_status = status, !.pc = "poll", !.sleeps = Count(@),
                        !.pendingPolls = Count(@)]

\* a generate() that gives up after MaxCount sleeps
AfterPoll_Timeout(q, status) ==
    IF status = "completed" THEN [q EXCEPT !.run_status = status, !.pc = "list"]
    ELSE IF status = "failed"
         THEN [q EXCEPT !.run_status = status, !.pc = "yield",
                        !.frames = Append(@, SseFrame(error_data(q.thread_id)))]
         ELSE [q EXCEPT !.run_status = status, !.sleeps = Count(@),
                        !.pc = IF q.sleeps = MaxCount THEN "closed" ELSE "poll",
                        !.pendingPolls = IF status \in Pending THEN Count(@) ELSE @,
                        !.otherPolls = @ \/ status \notin Pending]

\* lines 95, 106, 114: the branch generate() takes on a retrieved status; a
\* status that is neither completed nor failed sleeps and loops
AfterPoll(q, status) ==
    IF status = "completed" THEN [q EXCEPT !.run_status = status, !.pc = "list"]
    ELSE IF status = "failed"
         THEN [q EXCEPT !.run_status = status, !.pc = "yield",
                        !.frames = Append(@, SseFrame(error_data(q.thread_id)))]
         ELSE [q EXCEPT !.run_status = status, !.pc = "poll", !.sleeps = Count(@),
                        !.pendingPolls = IF status \in Pending THEN Count(@) ELSE @,
                        !.otherPolls = @ \/ status \notin Pending]

\* a chat() whose except clause also covers the body of generate()
GenerateRaise_Caught(q, c, e) ==
    [q EXCEPT !.pc = "returned", !.raised = e, !.calls = Log(@, c),
              !.resp = JsonResponse(500, ErrorBody(e))]

\* lines 87-114: a remote call inside generate() raises; the try of chat() has
\* been left when the stream is consumed, so the exception leaves generate()
GenerateRaise(q, c, e) ==
    [q EXCEPT !.pc = "aborted", !.raised = e, !.calls = Log(@, c)]

\* lines 90-93: run_status = client.beta.threads.runs.retrieve(thread_id, run_id),
\* and line 114: time.sleep(0.5) when the loop goes on
Poll(r) ==
    /\ req[r].pc = "poll"
    /\ LET q == req[r]
           c(ok, res) == Call("runs.retrieve", q.thread_id, q.run_id, ok, res) IN
       \/ LET st == runs[q.run_id].status IN
          req' = [req EXCEPT ![r] = [AfterPoll(q, st) EXCEPT !.calls = Log(@, c(TRUE, None))]]
       \/ \E e \in RemoteErrors :
          req' = [req EXCEPT ![r] = GenerateRaise(q, c(FALSE, e), e)]
    /\ UNCHANGED <<env_ASSISTANT_ID, ASSISTANT_ID, boot, remote>>

\* a generate() that answers with the newest message of the call's own run
AfterList_OwnRun(q, msgs) ==
    LET own == {i \in DOMAIN msgs : msgs[i].run_id = q.run_id} IN
    IF own # {}
    THEN [q EXCEPT !.pc = "yield",
                   !.frames = Append(@, SseFrame(response_data(
                                  msgs[CHOOSE i \in own : \A j \in own : j <= i], q.thread_id)))]
    ELSE [q EXCEPT !.pc = "closed"]

\* a generate() that takes the oldest message of the list for the latest
AfterList_Oldest(q, msgs) ==
    LET latest_message == msgs[1] IN
    IF latest_message.role = "assistant"
    THEN [q EXCEPT !.pc = "yield",
                   !.frames = Append(@, SseFrame(response_data(latest_message, q.thread_id)))]
    ELSE [q EXCEPT !.pc = "closed"]

\* a generate() that does not look at the role of the latest message
AfterList_NoRoleCheck(q, msgs) ==
    [q EXCEPT !.pc = "yield",
              !.frames = Append(@, SseFrame(response_data(msgs[Len(msgs)], q.thread_id)))]

\* lines 98-105: latest_message = messages.data[0]; data is newest first
AfterList(q, msgs) ==
    LET latest_message == msgs[Len(msgs)] IN
    IF latest_message.role = "assistant"
    THEN [q EXCEPT !.pc = "yield",
                   !.frames = Append(@, SseFrame(response_data(latest_message, q.thread_id)))]
    ELSE [q EXCEPT !.pc = "closed"]

\* line 97: messages = client.beta.threads.messages.list(thread_id=thread_id)
List(r) ==
    /\ req[r].pc = "list"
    /\ LET q == req[r]
           c(ok, res) == Call("messages.list", q.thread_id, None, ok, res) IN
       \/ req' = [req EXCEPT ![r] =
                     [AfterList(q, threads[q.thread_id]) EXCEPT !.calls = Log(@, c(TRUE, None))]]
       \/ \E e \in RemoteErrors :
          req' = [req EXCEPT ![r] = GenerateRaise(q, c(FALSE, e), e)]
    /\ UNCHANGED <<env_ASSISTANT_ID, ASSISTANT_ID, boot, remote>>

\* a generate() that goes round the loop again after its yield
AfterYield_Loops(q) == [q EXCEPT !.pc = "poll", !.sleeps = Count(@)]

\* lines 105, 112: the break after the yield
AfterYield(q) == [q EXCEPT !.pc = "closed"]

\* generate() is resumed after its yield
Resume(r) ==
    /\ req[r].pc = "yield"
    /\ req' = [req EXCEPT ![r] = AfterYield(@)]
    /\ UNCHANGED <<env_ASSISTANT_ID, ASSISTANT_ID, boot, remote>>

(* -------------------------------------------------------- POST /upload *)
\* a handler that answers with the file id when only the update failed
UploadExcept_FileIdAnyway(q, c, e) ==
    [q EXCEPT !.pc = "returned", !.calls = Log(@, c),
              !.resp = IF q.file_id # None THEN JsonResponse(200, {<<"file_id", q.file_id>>})
                       ELSE JsonResponse(500, ErrorBody(e))]

\* lines 145-146: except Exception as e: return {"error": str(e)}, 500
UploadExcept(q, c, e) ==
    [q EXCEPT !.pc = "returned", !.calls = Log(@, c), !.resp = JsonResponse(500, ErrorBody(e))]

\* a handler that does not check for the file field
UploadCheck_NoValidation(q) == [q EXCEPT !.pc = "files_create"]

\* lines 126-129: if "file" not in request.files: return {"error": "No file provided"}, 400
UploadCheck(q) ==
    IF ~q.has_file
    THEN [q EXCEPT !.pc = "returned", !.resp = JsonResponse(400, ErrorBody("No file provided"))]
    ELSE [q EXCEPT !.pc = "files_create"]

UploadReceive(r) ==
    /\ boot.pc = "returned"
    /\ req[r].kind = "upload" /\ req[r].pc = "idle"
    /\ req' = [req EXCEPT ![r] = UploadCheck(@)]
    /\ UNCHANGED <<env_ASSISTANT_ID, ASSISTANT_ID, boot, remote>>

\* lines 133-136: openai_file = client.files.create(file=file.stream, purpose="assistants")
FilesCreate(r) ==
    /\ req[r].pc = "files_create"
    /\ \/ LET id == FileIdOf(Cardinality(files) + 1) IN
          /\ files' = files \cup {id}
          /\ req' = [req EXCEPT ![r] = [@ EXCEPT !.file_id = id, !.pc = "assistants_update",
                        !.calls = Log(@, Call("files.create", None, None, TRUE, id))]]
       \/ \E e \in RemoteErrors :
          /\ req' = [req EXCEPT ![r] =
                        UploadExcept(@, Call("files.create", None, None, FALSE, e), e)]
          /\ UNCHANGED files
    /\ UNCHANGED <<env_ASSISTANT_ID, ASSISTANT_ID, boot, assistants, threads, runs>>

\* a handler that answers without the id of the uploaded file
UploadReturn_NoId(q, c) ==
    [q EXCEPT !.pc = "returned", !.calls = Log(@, c),
              !.resp = JsonResponse(200, {<<"file_id", None>>})]

\* line 144: return {"file_id": openai_file.id}
UploadReturn(q, c) ==
    [q EXCEPT !.pc = "returned", !.calls = Log(@, c),
              !.resp = JsonResponse(200, {<<"file_id", q.file_id>>})]

\* an upload that sends the files attached so far together with the new one
file_ids_Accumulated(attached, file_id) == Append(attached, file_id)

\* line 141: file_ids=[openai_file.id]; the update replaces the attached list
file_ids(attached, file_id) == <<file_id>>

\* lines 139-142: client.beta.assistants.update(assistant_id=ASSISTANT_ID, file_ids=[openai_file.id])
AssistantsUpdate(r) ==
    /\ req[r].pc = "assistants_update"
    /\ LET q == req[r]
           c(ok, res) == Call("assistants.update", ASSISTANT_ID, q.file_id, ok, res) IN
       \/ /\ assistants' = [assistants EXCEPT ![ASSISTANT_ID] = file_ids(@, q.file_id)]
          /\ req' = [req EXCEPT ![r] = UploadReturn(q, c(TRUE, None))]
       \/ \E e \in RemoteErrors :
          /\ req' = [req EXCEPT ![r] = UploadExcept(q, c(FALSE, e), e)]
          /\ UNCHANGED assistants
    /\ UNCHANGED <<env_ASSISTANT_ID, ASSISTANT_ID, boot, threads, runs, files>>

(* ------------------------------------------- the remote service's runs *)
\* statuses a run can move to
NextStatuses(st) ==
    CASE st = "queued" -> {"in_progress"}
      [] st = "in_progress" -> {"completed", "failed"} \cup OtherStatuses
      [] OTHER -> {}

AssistantMessage(rid, content) == [role |-> "assistant", content |-> content, run_id |-> rid]

\* the remote service advances a run; a completed run has added its answer to the thread
RunStep(rid) ==
    /\ \E st \in NextStatuses(runs[rid].status) :
         /\ runs' = [runs EXCEPT ![rid].status = st]
         /\ IF st = "completed"
            THEN \E content \in AssistantContents(rid) :
                   threads' = [threads EXCEPT ![runs[rid].thread_id] =
                                  Append(@, AssistantMessage(rid, content))]
            ELSE UNCHANGED threads
    /\ UNCHANGED <<env_ASSISTANT_ID, ASSISTANT_ID, boot, assistants, files, req>>

Next ==
    \/ BootGetenv
    \/ BootRetrieve
    \/ BootCreate
    \/ \E r \in Reqs : hello(r)
    \/ \E r \in Reqs : ChatReceive(r)
    \/ \E r \in Reqs : ThreadsCreate(r)
    \/ \E r \in Reqs : MessagesCreate(r)
    \/ \E r \in Reqs : RunsCreate(r)
    \/ \E r \in Reqs : Poll(r)
    \/ \E r \in Reqs : List(r)
    \/ \E r \in Reqs : Resume(r)
    \/ \E r \in Reqs : UploadReceive(r)
    \/ \E r \in Reqs : FilesCreate(r)
    \/ \E r \in Reqs : AssistantsUpdate(r)
    \/ \E rid \in DOMAIN runs : RunStep(rid)

Spec == Init /\ [][Next]_vars
SpecConcurrent == InitConcurrent /\ [][Next]_vars

\* a worker that serves a stream keeps running: the server's thread is
\* scheduled, so generate() takes its next step; the remote service owes nothing
WorkerRuns == \A r \in Reqs : WF_vars(Poll(r)) /\ WF_vars(List(r)) /\ WF_vars(Resume(r))
SpecLive == Init /\ [][Next]_vars /\ WorkerRuns
(* =============================================================== claims *)
\* the entries of history h that call op
CallsTo(h, op) == {i \in DOMAIN h : h[i].op = op}
\* the worker's stream has ended
Ended(q) == q.pc \in {"closed", "aborted"}
\* the newest message of a thread
Newest(msgs) == msgs[Len(msgs)]
\* the thread id a chat call works on: the supplied one, or the one its
\* thread-creation call returned
CreatedThreads(q) == {q.calls[i].res : i \in {j \in CallsTo(q.calls, "threads.create") : q.calls[j].ok}}
\* the run went pending, pending, completed under the worker's polls
PendingPendingCompleted(q) ==
    /\ q.kind = "chat"
    /\ q.run_status = "completed"
    /\ q.pendingPolls = 2
    /\ ~q.otherPolls

\* C1 as stated: a stream whose run was polled pending, pending, completed and
\* whose message-list call returned has emitted exactly one frame, with the
\* content of the thread's latest assistant message, after two sleeps.
C1_AsStated ==
    \A r \in Reqs :
        LET q == req[r] IN
        (PendingPendingCompleted(q) /\ q.pc = "closed") =>
            /\ Len(q.frames) = 1
            /\ Keys(q.frames[1].json) = {"content", "thread_id"}
            /\ \E i \in DOMAIN threads[q.thread_id] :
                   /\ threads[q.thread_id][i].role = "assistant"
                   /\ threads[q.thread_id][i].content[1].value = Field(q.frames[1].json, "content")
            /\ q.sleeps = 2

\* the List step of worker r returns: it leaves pc "list" without aborting
ListReturns(r) == req[r].pc = "list" /\ req'[r].pc \in {"yield", "closed"}

\* C1 (amended): a stream whose run is polled pending, pending, completed
\* emits no frame before the completed poll; when its message-list call
\* returns it emits exactly one frame if the thread's newest message at that
\* moment is an assistant message, carrying that message's text and the thread
\* id, and no frame otherwise; the frame comes after exactly two sleeps, one
\* after each pending poll, and three status polls.
C1_Inv ==
    \A r \in Reqs :
        LET q == req[r] IN
        /\ (q.kind = "chat" /\ q.run_status \in Pending) => q.frames = <<>>
        /\ PendingPendingCompleted(q) =>
            /\ q.sleeps = 2
            /\ Cardinality(CallsTo(q.calls, "runs.retrieve")) = 3
            /\ Len(q.frames) <= 1
            /\ q.pc = "list" => q.frames = <<>>
C1_Step ==
    \A r \in Reqs :
        LET q == req[r] IN
        (PendingPendingCompleted(q) /\ ListReturns(r)) =>
            LET m == Newest(threads[q.thread_id]) IN
            req'[r].frames =
                IF m.role = "assistant"
                THEN <<SseFrame({<<"content", m.content[1].value>>, <<"thread_id", q.thread_id>>})>>
                ELSE <<>>
C1_Amended == [](C1_Inv) /\ [][C1_Step]_vars
C1_Witness ==
    \E r \in Reqs :
        /\ PendingPendingCompleted(req[r])
        /\ req[r].pc = "closed"
        /\ Len(req[r].frames) = 1
        /\ Field(req[r].frames[1].json, "content") = AnswerOf(req[r].run_id)
\* a worker's record changes at most by the resumption after its yield
OnlyResumes(r) ==
    \/ req'[r] = req[r]
    \/ req[r].pc = "yield" /\ req'[r] = [req[r] EXCEPT !.pc = "closed"]

\* the run was reported failed on the worker's first poll
FailedOnFirstPoll(q) ==
    /\ q.kind = "chat"
    /\ q.run_status = "failed"
    /\ q.pendingPolls = 0
    /\ ~q.otherPolls

\* C2: a stream whose run is reported failed on the first poll emits exactly
\* one frame, {error: "Assistant run failed", thread_id: the call's thread},
\* makes no message-list call and no second poll, and then closes.
C2_Inv ==
    \A r \in Reqs :
        LET q == req[r] IN
        FailedOnFirstPoll(q) =>
            /\ q.frames = <<SseFrame({<<"error", "Assistant run failed">>,
                                      <<"thread_id", q.thread_id>>})>>
            /\ q.thread_id = IF Truthy(q.given_thread_id) THEN q.given_thread_id
                             ELSE CHOOSE t \in CreatedThreads(q) : TRUE
            /\ CallsTo(q.calls, "messages.list") = {}
            /\ Cardinality(CallsTo(q.calls, "runs.retrieve")) = 1
            /\ q.sleeps = 0
            /\ q.pc \in {"yield", "closed"}
C2_Step == \A r \in Reqs : FailedOnFirstPoll(req[r]) => OnlyResumes(r)
C2_FailedFirstPoll == [](C2_Inv) /\ [][C2_Step]_vars
C2_Witness ==
    \E r \in Reqs : FailedOnFirstPoll(req[r]) /\ req[r].pc = "closed" /\ Len(req[r].frames) = 1

\* C3: a stream emits at most one frame; a frame is emitted only in the loop
\* iteration whose poll observed completed or failed; from that poll on there
\* is no further poll and no sleep, and after the frame the stream only closes.
C3_Inv ==
    \A r \in Reqs :
        LET q == req[r] IN
        /\ Len(q.frames) <= 1
        /\ q.frames # <<>> => q.run_status \in {"completed", "failed"} /\ q.pc \in {"yield", "closed"}
        /\ q.run_status \in {"completed", "failed"} => q.pc \in {"list", "yield", "closed", "aborted"}
C3_Step ==
    \A r \in Reqs :
        LET q == req[r] IN
        /\ req'[r].frames # q.frames =>
              \/ q.pc = "poll" /\ req'[r].run_status = "failed"
              \/ q.pc = "list" /\ q.run_status = "completed"
        /\ q.run_status \in {"completed", "failed"} =>
              /\ req'[r].sleeps = q.sleeps
              /\ CallsTo(req'[r].calls, "runs.retrieve") = CallsTo(q.calls, "runs.retrieve")
              /\ req'[r].run_status = q.run_status
        /\ (q.frames # <<>> \/ Ended(q)) => OnlyResumes(r)
C3_AtMostOneFrame == [](C3_Inv) /\ [][C3_Step]_vars
C3_Witness ==
    \E r \in Reqs :
        /\ req[r].pc = "closed" /\ Len(req[r].frames) = 1
        /\ req[r].run_status = "completed" /\ req[r].sleeps > 0

\* the chat call has passed its thread-creation step
PastThreadStep(q) == q.kind = "chat" /\ q.pc \notin {"idle", "threads_create"}

\* C4: a chat call without thread_id makes exactly one thread-creation call,
\* and the thread_id of its frame is the id of the thread that call created.
C4_NewThread ==
    \A r \in Reqs :
        LET q == req[r] IN
        (q.kind = "chat" /\ q.given_thread_id = None) =>
            /\ Cardinality(CallsTo(q.calls, "threads.create")) = IF PastThreadStep(q) THEN 1 ELSE 0
            /\ \A i \in DOMAIN q.frames :
                  /\ CreatedThreads(q) = {Field(q.frames[i].json, "thread_id")}
                  /\ Field(q.frames[i].json, "thread_id") \in DOMAIN threads \ {OldThread}
C4_Witness ==
    \E r \in Reqs :
        /\ req[r].kind = "chat" /\ req[r].given_thread_id = None
        /\ Len(req[r].frames) = 1
        /\ Field(req[r].frames[1].json, "thread_id") = ThreadIdOf(1)

\* C5 as stated: a chat call with any string as thread_id, the empty string
\* included, makes no thread-creation call and echoes the string in its frame.
C5_AsStated ==
    \A r \in Reqs :
        LET q == req[r] IN
        (q.kind = "chat" /\ q.given_thread_id # None) =>
            /\ CallsTo(q.calls, "threads.create") = {}
            /\ \A i \in DOMAIN q.frames : Field(q.frames[i].json, "thread_id") = q.given_thread_id

\* C5 (amended): a chat call with a non-empty string as thread_id makes no
\* thread-creation call and echoes the string unchanged in its frame; an empty
\* string is treated like a missing thread_id.
C5_SuppliedThread ==
    \A r \in Reqs :
        LET q == req[r] IN
        /\ (q.kind = "chat" /\ Truthy(q.given_thread_id)) =>
              /\ CallsTo(q.calls, "threads.create") = {}
              /\ \A i \in DOMAIN q.frames :
                    Field(q.frames[i].json, "thread_id") = q.given_thread_id
        /\ (q.kind = "chat" /\ q.given_thread_id = "" /\ PastThreadStep(q)) =>
              Cardinality(CallsTo(q.calls, "threads.create")) = 1
C5_Witness ==
    \E r \in Reqs :
        /\ req[r].kind = "chat" /\ req[r].given_thread_id = OldThread
        /\ Len(req[r].frames) = 1
        /\ Field(req[r].frames[1].json, "thread_id") = OldThread

\* the setup calls of /chat, in the order of the code
SetupOps == {"threads.create", "messages.create", "runs.create"}
\* the setup calls that raised
FailedSetup(q) == {i \in DOMAIN q.calls : q.calls[i].op \in SetupOps /\ ~q.calls[i].ok}

\* C6: when a setup call of /chat raises, the call returns 500 with
\* {error: message of the exception}; the failed call is the last remote call
\* of the request (no retry, no later setup call, no poll), and no stream
\* starts.
C6_Inv ==
    \A r \in Reqs :
        LET q == req[r] IN
        (q.kind = "chat" /\ FailedSetup(q) # {}) =>
            /\ FailedSetup(q) = {Len(q.calls)}
            /\ \A op \in SetupOps : Cardinality(CallsTo(q.calls, op)) <= 1
            /\ q.resp = JsonResponse(500, {<<"error", q.calls[Len(q.calls)].res>>})
            /\ q.pc = "returned"
            /\ CallsTo(q.calls, "runs.retrieve") = {}
            /\ q.frames = <<>>
C6_Step ==
    \A r \in Reqs : (req[r].kind = "chat" /\ FailedSetup(req[r]) # {}) => req'[r] = req[r]
C6_SetupFailure == [](C6_Inv) /\ [][C6_Step]_vars
C6_Witness ==
    \E r \in Reqs :
        /\ req[r].kind = "chat" /\ req[r].resp.status = 500
        /\ Len(req[r].calls) = 3 /\ req[r].calls[3].op = "runs.create"
        /\ req[r].calls[3].res = "bad request"
\* the retrieve call of the provisioning step returned
RetrieveResolved == \E i \in CallsTo(boot.calls, "assistants.retrieve") : boot.calls[i].ok
\* the provisioning step had no usable configured id
NoUsableConfiguredId ==
    /\ boot.pc # "start"
    /\ \/ ~Truthy(env_ASSISTANT_ID)
       \/ \E i \in CallsTo(boot.calls, "assistants.retrieve") : ~boot.calls[i].ok

\* C7: when the configured assistant id resolves, get_or_create_assistant
\* returns that id and makes no creation call.
C7_Inv ==
    RetrieveResolved =>
        /\ boot.pc = "returned"
        /\ ASSISTANT_ID = env_ASSISTANT_ID
        /\ CallsTo(boot.calls, "assistants.create") = {}
        /\ DOMAIN assistants = {env_ASSISTANT_ID}
C7_Step == RetrieveResolved => UNCHANGED <<boot, ASSISTANT_ID>>
C7_ReuseConfigured == [](C7_Inv) /\ [][C7_Step]_vars
C7_Witness == RetrieveResolved /\ ASSISTANT_ID = ConfiguredId /\ \E r \in Reqs : req[r].pc # "idle"

\* C8: when the configured id is absent or its retrieve call raises,
\* get_or_create_assistant makes exactly one creation call and returns the id
\* that call issued; the retrieval failure is swallowed, it never leaves the
\* function.
C8_Inv ==
    NoUsableConfiguredId =>
        /\ Cardinality(CallsTo(boot.calls, "assistants.create")) = IF boot.pc = "create" THEN 0 ELSE 1
        /\ boot.pc = "create" => boot.raised = None /\ ~Truthy(boot.assistant_id)
        /\ boot.pc = "returned" =>
              /\ boot.raised = None
              /\ boot.calls[Len(boot.calls)].op = "assistants.create"
              /\ boot.calls[Len(boot.calls)].ok
              /\ ASSISTANT_ID = boot.calls[Len(boot.calls)].res
              /\ ASSISTANT_ID \in DOMAIN assistants \ {ConfiguredId}
        /\ boot.pc = "crashed" =>
              /\ boot.calls[Len(boot.calls)].op = "assistants.create"
              /\ boot.raised = boot.calls[Len(boot.calls)].res
C8_Step == (NoUsableConfiguredId /\ boot.pc = "returned") => UNCHANGED <<boot, ASSISTANT_ID>>
C8_CreateWhenUnusable == [](C8_Inv) /\ [][C8_Step]_vars
C8_Witness ==
    /\ boot.pc = "returned"
    /\ Len(boot.calls) = 2 /\ ~boot.calls[1].ok /\ boot.calls[2].ok
    /\ ASSISTANT_ID = AssistantIdOf(2)

\* C9: POST /upload without a file field answers 400 {error: "No file
\* provided"} and makes no remote call; no other request is answered 400.
C9_Inv ==
    \A r \in Reqs :
        LET q == req[r] IN
        /\ (q.kind = "upload" /\ ~q.has_file /\ q.pc # "idle") =>
              /\ q.pc = "returned"
              /\ q.resp = JsonResponse(400, {<<"error", "No file provided">>})
              /\ q.calls = <<>>
        /\ q.resp.status = 400 => q.kind = "upload" /\ ~q.has_file
C9_Step ==
    \A r \in Reqs :
        (req[r].kind = "upload" /\ ~req[r].has_file /\ req'[r] # req[r]) =>
            /\ UNCHANGED <<assistants, threads, runs, files>>
            /\ req[r].pc = "idle"
C9_NoFile == [](C9_Inv) /\ [][C9_Step]_vars
C9_Witness ==
    \E r \in Reqs : req[r].kind = "upload" /\ ~req[r].has_file /\ req[r].resp.status = 400

\* both remote calls of the upload returned
UploadSucceeded(q) ==
    /\ q.kind = "upload"
    /\ \E i \in CallsTo(q.calls, "assistants.update") : q.calls[i].ok

\* C10: POST /upload with a file, when both remote calls return, answers 200
\* {file_id: id} with the id the file-create call returned, and makes exactly
\* one assistant-update call, after the file-create call, on the provisioned
\* assistant, attaching that id.
C10_Inv ==
    \A r \in Reqs :
        LET q == req[r] IN
        UploadSucceeded(q) =>
            /\ q.has_file
            /\ Len(q.calls) = 2
            /\ q.calls[1] = Call("files.create", None, None, TRUE, q.calls[1].res)
            /\ q.calls[2] = Call("assistants.update", ASSISTANT_ID, q.calls[1].res, TRUE, None)
            /\ q.calls[1].res \in files
            /\ q.resp = JsonResponse(200, {<<"file_id", q.calls[1].res>>})
            /\ q.pc = "returned"
C10_Step ==
    \A r \in Reqs :
        /\ UploadSucceeded(req[r]) => req'[r] = req[r]
        /\ (req[r].pc = "assistants_update" /\ UploadSucceeded(req'[r])) =>
              assistants' = [assistants EXCEPT ![ASSISTANT_ID] = <<req[r].file_id>>]
C10_UploadOk == [](C10_Inv) /\ [][C10_Step]_vars
C10_Witness ==
    \E r \in Reqs :
        /\ UploadSucceeded(req[r])
        /\ req[r].resp.status = 200
        /\ Field(req[r].resp.json, "file_id") = FileIdOf(1)
        /\ assistants[ASSISTANT_ID] = <<FileIdOf(1)>>
\* the statuses on which generate() leaves its loop
Terminal == {"completed", "failed"}
\* worker r is inside generate()
Streaming(q) == q.kind = "chat" /\ q.pc \in {"poll", "list", "yield"}

\* C11: a stream ends only after a poll observed completed or failed, or when
\* a remote call raised; a poll that observes a pending status emits nothing
\* and leaves the worker at the next poll, whatever the number of polls made
\* so far; and once the run of a streaming worker is completed or failed the
\* stream eventually ends.
C11_Inv ==
    \A r \in Reqs :
        LET q == req[r] IN
        /\ q.pc = "closed" => q.run_status \in Terminal
        /\ q.pc = "aborted" <=> q.raised # None
        /\ (q.kind = "chat" /\ q.run_status \notin Terminal) => q.frames = <<>>
        /\ (q.pc = "poll" /\ q.sleeps = MaxCount) => ENABLED Poll(r)
C11_Step ==
    \A r \in Reqs :
        (req[r].pc = "poll" /\ req'[r] # req[r]
            /\ req'[r].run_status \in Pending /\ req'[r].raised = None) =>
            /\ req'[r].pc = "poll"
            /\ req'[r].frames = <<>>
            /\ req'[r].sleeps = Count(req[r].sleeps)
C11_Ends ==
    \A r \in Reqs :
        (Streaming(req[r]) /\ runs[req[r].run_id].status \in Terminal) ~> Ended(req[r])
C11_Termination == [](C11_Inv) /\ [][C11_Step]_vars /\ C11_Ends
C11_Witness ==
    \E r \in Reqs :
        /\ req[r].pc = "poll" /\ req[r].pendingPolls = MaxCount /\ req[r].sleeps = MaxCount
        /\ runs[req[r].run_id].status \in Pending
        /\ req[r].frames = <<>>
\* the run of worker r has settled in a status generate() does not name
SettledOther(q) == q.run_id # None /\ runs[q.run_id].status \in OtherStatuses

\* C12: a poll that observes cancelled, expired or requires_action does what
\* a poll that observes a pending status does: no frame, a sleep, and the
\* next poll; once the run has settled in such a status the stream emits
\* nothing and never closes, its next poll stays possible.
C12_Inv ==
    \A r \in Reqs :
        LET q == req[r] IN
        /\ SettledOther(q) =>
              /\ q.pc \in {"poll", "aborted"}
              /\ q.frames = <<>>
              /\ q.pc = "poll" => ENABLED Poll(r)
        /\ q.otherPolls => SettledOther(q) /\ q.run_status \notin Terminal
C12_Step ==
    \A r \in Reqs :
        LET q == req[r] IN
        (SettledOther(q) /\ q.pc = "poll" /\ req'[r] # q /\ req'[r].raised = None) =>
            req'[r] = [q EXCEPT !.run_status = runs[q.run_id].status,
                                !.sleeps = Count(@), !.otherPolls = TRUE,
                                !.calls = req'[r].calls]
C12_OtherStatuses == [](C12_Inv) /\ [][C12_Step]_vars
C12_Witness ==
    \E r \in Reqs :
        /\ req[r].run_status = "expired" /\ req[r].otherPolls
        /\ req[r].pendingPolls = 1 /\ req[r].sleeps = MaxCount
        /\ req[r].pc = "poll" /\ req[r].frames = <<>>
\* the response chat() returns once the run is created
StreamResponse == [status |-> 200, mimetype |-> "text/event-stream", json |-> NoJson, text |-> ""]
\* the calls generate() makes
StreamOps == {"runs.retrieve", "messages.list"}

\* C13: when a status poll or the message-list call raises, the exception is
\* not handled by chat(): the stream ends there with no frame at all, the
\* response stays the 200 event stream (no 500 JSON body), the raising call
\* is the last remote call, and nothing follows.
C13_Inv ==
    \A r \in Reqs :
        LET q == req[r] IN
        /\ (q.kind = "chat" /\ q.raised # None) =>
              /\ q.pc = "aborted"
              /\ q.frames = <<>>
              /\ q.resp = StreamResponse
              /\ FailedSetup(q) = {}
              /\ Len(q.calls) < MaxLog =>
                    /\ q.calls[Len(q.calls)].op \in StreamOps
                    /\ ~q.calls[Len(q.calls)].ok
                    /\ q.calls[Len(q.calls)].res = q.raised
        /\ \A i \in DOMAIN q.calls :
              (q.calls[i].op \in StreamOps /\ ~q.calls[i].ok) => i = Len(q.calls) /\ q.raised # None
C13_Step ==
    \A r \in Reqs : (req[r].kind = "chat" /\ req[r].raised # None) => req'[r] = req[r]
C13_StreamFailure == [](C13_Inv) /\ [][C13_Step]_vars
C13_Witness ==
    \E r \in Reqs :
        /\ req[r].pc = "aborted" /\ req[r].raised = "bad request"
        /\ req[r].run_status = "completed" /\ req[r].sleeps = 1
        /\ req[r].calls[Len(req[r].calls)].op = "messages.list"
        /\ req[r].resp.status = 200
\* C14: when the poll observed completed and the message-list call returns,
\* a newest message that is not the assistant's gives no frame and the stream
\* closes; a newest message of the assistant gives exactly one frame
\* {content: text of its first block, thread_id}, and then the stream closes.
C14_Inv ==
    \A r \in Reqs :
        LET q == req[r] IN
        (q.run_status = "completed" /\ q.raised = None) =>
            /\ q.pc \in {"list", "yield", "closed"}
            /\ q.pc = "list" => Len(q.frames) = 0
            /\ q.pc = "yield" => Len(q.frames) = 1
            /\ q.pc = "closed" => Len(q.frames) <= 1
            /\ \A i \in DOMAIN q.frames :
                  /\ Keys(q.frames[i].json) = {"content", "thread_id"}
                  /\ Field(q.frames[i].json, "thread_id") = q.thread_id
                  /\ i = 1
C14_Step ==
    \A r \in Reqs :
        LET q == req[r]
            m == Newest(threads[q.thread_id]) IN
        /\ ListReturns(r) =>
              IF m.role = "assistant"
              THEN /\ req'[r].pc = "yield"
                   /\ req'[r].frames = <<SseFrame({<<"content", m.content[1].value>>,
                                                   <<"thread_id", q.thread_id>>})>>
              ELSE /\ req'[r].pc = "closed"
                   /\ req'[r].frames = <<>>
        /\ (q.run_status = "completed" /\ q.pc \in {"yield", "closed"}) => OnlyResumes(r)
C14_LatestMessage == [](C14_Inv) /\ [][C14_Step]_vars
C14_Witness ==
    \E r \in Reqs :
        /\ req[r].run_status = "completed" /\ req[r].pc = "closed" /\ req[r].frames = <<>>
        /\ Newest(threads[req[r].thread_id]).role = "user"
\* the chat call's setup succeeded: its stream exists
Started(q) == q.kind = "chat" /\ q.run_id # None
\* number of thread-creation calls the call's request body asks for
ThreadCalls(q) == IF Truthy(q.given_thread_id) THEN 0 ELSE 1

\* C15: a chat call whose setup succeeded has made its remote calls in the
\* order thread creation (only without a supplied thread id), one message
\* creation, one run creation, then status polls and the message list; all of
\* them name the call's thread, every poll names the run this call created,
\* that run belongs to this thread and to no other call, and a run never
\* changes its thread.
C15_Inv ==
    \A r \in Reqs :
        LET q == req[r]
            n == ThreadCalls(q) IN
        Started(q) =>
            /\ Len(q.calls) >= n + 2
            /\ n = 1 => q.calls[1] = Call("threads.create", None, None, TRUE, q.thread_id)
            /\ n = 0 => q.thread_id = q.given_thread_id
            /\ q.calls[n + 1] = Call("messages.create", q.thread_id, q.message, TRUE, None)
            /\ q.calls[n + 2] = Call("runs.create", q.thread_id, ASSISTANT_ID, TRUE, q.run_id)
            /\ \A i \in DOMAIN q.calls :
                  i > n + 2 =>
                     /\ q.calls[i].op \in StreamOps
                     /\ q.calls[i].thread = q.thread_id
                     /\ q.calls[i].op = "runs.retrieve" => q.calls[i].arg = q.run_id
                     /\ q.calls[i].op = "messages.list" => i = Len(q.calls)
            /\ Len(q.calls) > n + 2 => q.calls[n + 3].op = "runs.retrieve"
            /\ q.run_id \in DOMAIN runs
            /\ runs[q.run_id].thread_id = q.thread_id
            /\ \A o \in Reqs \ {r} : req[o].run_id # q.run_id
C15_Step ==
    /\ \A rid \in DOMAIN runs : rid \in DOMAIN runs' /\ runs'[rid].thread_id = runs[rid].thread_id
    /\ \A r \in Reqs : Started(req[r]) =>
          /\ req'[r].run_id = req[r].run_id
          /\ req'[r].thread_id = req[r].thread_id
C15_CallOrder == [](C15_Inv) /\ [][C15_Step]_vars
C15_Witness ==
    \E r \in Reqs :
        /\ Started(req[r]) /\ req[r].given_thread_id = "" /\ req[r].pc = "closed"
        /\ Len(req[r].calls) = 6
        /\ req[r].calls[6].op = "messages.list"
        /\ req[r].thread_id = ThreadIdOf(1)
\* the remote calls that look up or create an assistant
ProvisionOps == {"assistants.retrieve", "assistants.create"}

\* C16: ASSISTANT_ID is assigned once, by the step that ends the start-up,
\* before any request is served; no request step changes it, the start-up
\* record or the set of remote assistants; every run creation and every
\* assistant update names it, and no request looks up or creates an assistant.
C16_Inv ==
    /\ ASSISTANT_ID # None <=> boot.pc = "returned"
    /\ ASSISTANT_ID # None => ASSISTANT_ID = boot.assistant_id /\ ASSISTANT_ID \in DOMAIN assistants
    /\ \A rid \in DOMAIN runs : runs[rid].assistant_id = ASSISTANT_ID
    /\ \A r \in Reqs :
          LET q == req[r] IN
          /\ q.pc # "idle" => boot.pc = "returned"
          /\ \A i \in DOMAIN q.calls :
                /\ q.calls[i].op \notin ProvisionOps
                /\ q.calls[i].op = "runs.create" => q.calls[i].arg = ASSISTANT_ID
                /\ q.calls[i].op = "assistants.update" => q.calls[i].thread = ASSISTANT_ID
C16_Step ==
    /\ ASSISTANT_ID' # ASSISTANT_ID => ASSISTANT_ID = None /\ boot.pc # "returned" /\ req' = req
    /\ req' # req => UNCHANGED <<ASSISTANT_ID, boot>> /\ DOMAIN assistants' = DOMAIN assistants
C16_AssistantIdFixed == [](C16_Inv) /\ [][C16_Step]_vars
C16_Witness ==
    /\ ASSISTANT_ID = AssistantIdOf(2)
    /\ \E r \in Reqs : Started(req[r]) /\ runs[req[r].run_id].assistant_id = ASSISTANT_ID
    /\ \E r \in Reqs : UploadSucceeded(req[r])
\* the uploads whose assistant-update call returned
Uploaded == {r \in Reqs : UploadSucceeded(req[r])}
\* the files attached to the provisioned assistant
Attached == IF ASSISTANT_ID \in DOMAIN assistants THEN assistants[ASSISTANT_ID] ELSE <<>>

\* C17: uploads run file-create then assistant-update with nothing between
\* them that orders two requests; every update replaces the attached list by
\* the one id of its own file, so after any number of uploads the assistant
\* holds exactly the file of the update applied last, whichever file was
\* created first; every upload still answers with its own file id, and the
\* file of the other upload stays uploaded but is not attached.
C17_Inv ==
    /\ Len(Attached) <= 1
    /\ Uploaded # {} => \E r \in Uploaded : Attached = <<req[r].file_id>>
    /\ Uploaded = {} => Attached = <<>>
    /\ \A r \in Uploaded :
          /\ Field(req[r].resp.json, "file_id") = req[r].file_id
          /\ req[r].file_id \in files
          /\ \A o \in Uploaded \ {r} : req[o].file_id # req[r].file_id
C17_Step ==
    \A r \in Reqs :
        (r \in Uploaded' \ Uploaded) => assistants'[ASSISTANT_ID] = <<req[r].file_id>>
C17_UploadRace == [](C17_Inv) /\ [][C17_Step]_vars
\* the file created first is attached: its update came after the other one
C17_Witness ==
    /\ Uploaded = Reqs
    /\ Attached = <<FileIdOf(1)>>
    /\ \E r \in Reqs : req[r].file_id = FileIdOf(2) /\ req[r].resp.status = 200
\* the remote calls of the upload that raised
FailedUpload(q) == {i \in DOMAIN q.calls : q.kind = "upload" /\ ~q.calls[i].ok}

\* C18: a remote call of /upload that raises is the last remote call of the
\* request (no retry, no compensation) and the answer is 500 {error: message}
\* without a file_id; a raising file-create is the only call and no file
\* exists for it; after a raising assistant-update the file stays uploaded and
\* is not attached; the remote service never loses a file.
C18_Inv ==
    \A r \in Reqs :
        LET q == req[r] IN
        FailedUpload(q) # {} =>
            /\ FailedUpload(q) = {Len(q.calls)}
            /\ q.pc = "returned"
            /\ q.resp = JsonResponse(500, {<<"error", q.calls[Len(q.calls)].res>>})
            /\ "file_id" \notin Keys(q.resp.json)
            /\ q.calls[Len(q.calls)].op = "files.create" =>
                  /\ Len(q.calls) = 1
                  /\ q.file_id = None
            /\ q.calls[Len(q.calls)].op = "assistants.update" =>
                  /\ Len(q.calls) = 2
                  /\ q.calls[1] = Call("files.create", None, None, TRUE, q.file_id)
                  /\ q.calls[2].arg = q.file_id
                  /\ q.file_id \in files
                  /\ \A i \in DOMAIN Attached : Attached[i] # q.file_id
C18_Step ==
    /\ files \subseteq files'
    /\ \A r \in Reqs : FailedUpload(req[r]) # {} => req'[r] = req[r]
C18_UploadFailure == [](C18_Inv) /\ [][C18_Step]_vars
C18_Witness ==
    \E r \in Reqs :
        /\ req[r].kind = "upload" /\ req[r].resp.status = 500
        /\ Len(req[r].calls) = 2 /\ ~req[r].calls[2].ok
        /\ req[r].file_id \in files
        /\ Attached = <<>>
\* the chat calls other than r that work on r's thread
SameThread(r) ==
    {o \in Reqs \ {r} : req[o].kind = "chat" /\ req[o].thread_id = req[r].thread_id}
\* the runs whose answer worker r has sent
AnsweredRuns(q) ==
    {rid \in DOMAIN runs :
        \E i \in DOMAIN q.frames : Field(q.frames[i].json, "content") = AnswerOf(rid)}

\* C19: the content frame is the text of the thread's newest message at the
\* moment of the message-list call, whichever run wrote it; a frame's content
\* is always the answer of a completed run on the call's thread; when no
\* other chat call works on the thread it is the answer of the call's own
\* run, and a stream that closed after completed has sent it.  With two calls
\* on one thread a call can send the answer of the other call's run.
C19_Inv ==
    \A r \in Reqs :
        LET q == req[r] IN
        (q.kind = "chat" /\ q.run_status = "completed") =>
            /\ \A i \in DOMAIN q.frames :
                  \E rid \in DOMAIN runs :
                      /\ Field(q.frames[i].json, "content") = AnswerOf(rid)
                      /\ runs[rid].thread_id = q.thread_id
                      /\ runs[rid].status = "completed"
            /\ SameThread(r) = {} =>
                  /\ AnsweredRuns(q) \subseteq {q.run_id}
                  /\ q.pc = "closed" => AnsweredRuns(q) = {q.run_id}
C19_Step ==
    \A r \in Reqs :
        LET q == req[r]
            m == Newest(threads[q.thread_id]) IN
        (ListReturns(r) /\ m.role = "assistant") =>
            /\ Len(req'[r].frames) = 1
            /\ Field(req'[r].frames[1].json, "content") = AnswerOf(m.run_id)
C19_NewestMessage == [](C19_Inv) /\ [][C19_Step]_vars
\* a call whose run completed has sent the answer of the other call's run
C19_Witness ==
    \E r \in Reqs :
        /\ req[r].run_status = "completed" /\ req[r].pc = "closed"
        /\ runs[req[r].run_id].status = "completed"
        /\ \E o \in SameThread(r) :
              /\ req[o].run_id # None
              /\ AnsweredRuns(req[r]) = {req[o].run_id}
====
